---- MODULE Spec2Model ----
(***************************************************************************)
(* Model of stb-sys/build.rs: the cargo build script that parses TARGET,   *)
(* classifies the platform family, discovers the Android NDK / Apple SDK   *)
(* and assembles the clang argument list of bindgen and the flag list of   *)
(* cc.  Strings are TLA+ strings; substrings are taken with SubSeq, so     *)
(* split, contains, trim_end and the regex are computed character by       *)
(* character.  Option<T> is a sequence: <<>> is None, <<v>> is Some(v).    *)
(***************************************************************************)
EXTENDS Naturals, Sequences, FiniteSets, TLC

VARIABLES
    TARGET,             \* env TARGET, set by cargo
    FEATURES,           \* the cargo features the script was compiled with
    HOST_OS,            \* cfg!(target_os) of the build script itself
    ANDROID_NDK,        \* env ANDROID_NDK: Option<String>
    source_properties,  \* the file <ndk>/source.properties
    pc,                 \* position in main
    target_vec,         \* main: `target: Vec<String>` (line 113)
    target,             \* main: `target: Target` (line 124)
    bindgen_builder,    \* main: the bindgen::Builder
    cc_builder,         \* main: the cc::Build
    bindings_rs,        \* the file OUT_DIR/bindings.rs
    gen_major,          \* `major` of the first match (line 155): Option<u32>
    cc_major,           \* `major` of the second match (line 246): Option<u32>
    gen_directory,      \* `directory` of line 177, wrapped: <<>> before it is bound
    cc_directory,       \* `directory` of line 262, wrapped: <<>> before it is bound
    io,                 \* the script's effects on its environment, in order
    panic_msg           \* the panic message once the script has panicked

vars == <<TARGET, FEATURES, HOST_OS, ANDROID_NDK, source_properties, pc,
          target_vec, target, bindgen_builder, cc_builder, bindings_rs,
          gen_major, cc_major, gen_directory, cc_directory, io, panic_msg>>

None == <<>>
Some(v) == <<v>>

----------------------------------------------------------------------------
(* Bounds of the explored inputs.                                          *)

\* longest TARGET, in dash-separated tokens
MaxTokens == 5
\* NDK majors explored: NdkBoundary - NdkSpan .. NdkBoundary + NdkSpan
NdkSpan == 1

----------------------------------------------------------------------------
(* String primitives of the standard library, as the script uses them.     *)

\* the character at position i, or the empty string past either end
CharAt(s, i) == IF 1 <= i /\ i <= Len(s) THEN SubSeq(s, i, i) ELSE ""

\* s has pat at position i
HasAt(s, i, pat) ==
    /\ i + Len(pat) - 1 <= Len(s)
    /\ SubSeq(s, i, i + Len(pat) - 1) = pat

\* str::split('-'): always at least one token, empty tokens are kept
RECURSIVE Split(_)
Split(s) ==
    IF \E i \in 1..Len(s) : CharAt(s, i) = "-"
    THEN LET i == CHOOSE k \in 1..Len(s) :
                     /\ CharAt(s, k) = "-"
                     /\ \A j \in 1..(k - 1) : CharAt(s, j) # "-"
         IN  <<SubSeq(s, 1, i - 1)>> \o Split(SubSeq(s, i + 1, Len(s)))
    ELSE <<s>>

\* str::contains(&str)
Contains(s, pat) ==
    \E i \in 1..(Len(s) + 1) : HasAt(s, i, pat)

IsWhitespace(c) == c \in {" ", "\n", "\t", "\r"}

\* str::trim_end
RECURSIVE TrimEnd(_)
TrimEnd(s) ==
    IF Len(s) > 0 /\ IsWhitespace(CharAt(s, Len(s)))
    THEN TrimEnd(SubSeq(s, 1, Len(s) - 1))
    ELSE s

\* Path::join of a relative component
PathJoin(dir, name) ==
    IF dir = "" THEN name
    ELSE IF CharAt(dir, Len(dir)) = "/" THEN dir \o name
    ELSE dir \o "/" \o name

Digits == <<"0", "1", "2", "3", "4", "5", "6", "7", "8", "9">>
IsDigit(c) == \E d \in 1..10 : Digits[d] = c
DigitVal(c) == (CHOOSE d \in 1..10 : Digits[d] = c) - 1

\* length of the run of decimal digits of s that starts at position p
RECURSIVE DigitRun(_, _)
DigitRun(s, p) ==
    IF p <= Len(s) /\ IsDigit(CharAt(s, p)) THEN 1 + DigitRun(s, p + 1) ELSE 0

RECURSIVE StripZeros(_)
StripZeros(s) ==
    IF Len(s) > 1 /\ CharAt(s, 1) = "0" THEN StripZeros(SubSeq(s, 2, Len(s))) ELSE s

RECURSIVE DigitsValue(_)
DigitsValue(s) ==
    IF s = "" THEN 0
    ELSE 10 * DigitsValue(SubSeq(s, 1, Len(s) - 1)) + DigitVal(CharAt(s, Len(s)))

\* a < b for two digit strings of the same length
RECURSIVE DigitsLess(_, _)
DigitsLess(a, b) ==
    IF a = "" THEN FALSE
    ELSE IF CharAt(a, 1) # CharAt(b, 1)
         THEN DigitVal(CharAt(a, 1)) < DigitVal(CharAt(b, 1))
         ELSE DigitsLess(SubSeq(a, 2, Len(a)), SubSeq(b, 2, Len(b)))

U32MaxDigits == "4294967295"

\* str::parse::<u32> of a non-empty run of decimal digits
ParseU32(s) ==
    LET sig == StripZeros(s) IN
    IF \/ Len(sig) > Len(U32MaxDigits)
       \/ Len(sig) = Len(U32MaxDigits) /\ DigitsLess(U32MaxDigits, sig)
    THEN [ok |-> FALSE, val |-> 0]
    ELSE [ok |-> TRUE,  val |-> DigitsValue(sig)]

\* decimal text of a natural number (Display for u32)
RECURSIVE ToStr(_)
ToStr(n) == IF n < 10 THEN Digits[n + 1] ELSE ToStr(n \div 10) \o Digits[(n % 10) + 1]

----------------------------------------------------------------------------
(* struct Target and its Display.                                          *)

Target(architecture, vendor, system, abi) ==
    [architecture |-> architecture, vendor |-> vendor, system |-> system, abi |-> abi]

NoTarget == Target("", "", "", None)

Display(t) ==
    t.architecture \o "-" \o t.vendor \o "-" \o t.system
      \o (IF t.abi # None THEN "-" \o t.abi[1] ELSE "")

\* TargetOf with the abi test off by one (`target.len() > 4`)
TargetOf_AbiOffByOne(v) ==
    LET abi == IF Len(v) > 4 THEN Some(v[4]) ELSE None
    IN  Target(v[1], v[2], v[3], abi)

\* main, lines 118-129: the descriptor built from the split tokens
TargetOf(v) ==
    LET abi == IF Len(v) > 3 THEN Some(v[4]) ELSE None
    IN  Target(v[1], v[2], v[3], abi)

----------------------------------------------------------------------------
(* Static configuration: FILES and the feature defines.                    *)

\* lines 11-26: one entry per #[cfg(feature = ..)] element, in source order
FileTable ==
    << <<"stb_easy_font",    "src/stb_easy_font.c">>,
       <<"stb_dxt",          "src/stb_dxt.c">>,
       <<"stb_image",        "src/stb_image.c">>,
       <<"stb_image_write",  "src/stb_image_write.c">>,
       <<"stb_rect_pack",    "src/stb_rect_pack.c">>,
       <<"stb_image_resize", "src/stb_image_resize.c">>,
       <<"stb_truetype",     "src/stb_truetype.c">> >>

RECURSIVE Column(_, _)
Column(rows, k) ==
    IF rows = <<>> THEN <<>> ELSE <<Head(rows)[k]>> \o Column(Tail(rows), k)

FILES(features) ==
    LET Enabled(row) == row[1] \in features
    IN  Column(SelectSeq(FileTable, Enabled), 2)

\* lines 207-241: <<enclosing feature, feature, macro>>
DefineTable ==
    << <<"stb_dxt",   "stb_dxt_use_rounding_bias", "STB_DXT_USE_ROUNDING_BIAS">>,
       <<"stb_image", "stbi_no_linear",            "STBI_NO_LINEAR">>,
       <<"stb_image", "stbi_no_jpeg",              "STBI_NO_JPEG">>,
       <<"stb_image", "stbi_no_png",               "STBI_NO_PNG">>,
       <<"stb_image", "stbi_no_bmp",               "STBI_NO_BMP">>,
       <<"stb_image", "stbi_no_psd",               "STBI_NO_PSD">>,
       <<"stb_image", "stbi_no_gif",               "STBI_NO_GIF">>,
       <<"stb_image", "stbi_no_hdr",               "STBI_NO_HDR">>,
       <<"stb_image", "stbi_no_pic",               "STBI_NO_PIC">>,
       <<"stb_image", "stbi_no_pnm",               "STBI_NO_PNM">> >>

RECURSIVE WithValue(_, _)
WithValue(names, v) ==
    IF names = <<>> THEN <<>> ELSE << <<Head(names), v>> >> \o WithValue(Tail(names), v)

Defines(features) ==
    LET Enabled(row) == row[1] \in features /\ row[2] \in features
    IN  WithValue(Column(SelectSeq(DefineTable, Enabled), 3), "1")

\* env OUT_DIR, which cargo sets for every build script to a directory the
\* script can write: the unwraps of lines 133 and 138 and the write of line
\* 201 do not fail
OUT_DIR == "/target/debug/build/stb-sys/out"

bindings_path == PathJoin(OUT_DIR, "bindings.rs")

----------------------------------------------------------------------------
(* ndk(), host_tag(), ndk_major_version().                                 *)

Ok(v) == [ok |-> TRUE, val |-> v, msg |-> ""]
Panic(m) == [ok |-> FALSE, val |-> "", msg |-> m]

\* std::env::var("ANDROID_NDK").expect(..)
ndk(env) ==
    IF env = None THEN Panic("ANDROID_NDK variable not set") ELSE Ok(env[1])

host_tag(os) ==
    IF os = "windows" THEN Ok("windows-x86_64")
    ELSE IF os = "linux" THEN Ok("linux-x86_64")
    ELSE IF os = "macos" THEN Ok("darwin-x86_64")
    ELSE Panic("host os is not supported")

\* the regex Pkg.Revision = (\d+)\.(\d+)\.(\d+) anchored at position i of buf;
\* the unescaped dot after Pkg matches any character but a line feed
RevisionAt(buf, i) ==
    LET p  == i + 15
        n1 == DigitRun(buf, p)
        q  == p + n1 + 1
        n2 == DigitRun(buf, q)
        r  == q + n2 + 1
        n3 == DigitRun(buf, r)
    IN  /\ HasAt(buf, i, "Pkg")
        /\ i + 3 <= Len(buf) /\ CharAt(buf, i + 3) # "\n"
        /\ HasAt(buf, i + 4, "Revision = ")
        /\ n1 >= 1 /\ CharAt(buf, p + n1) = "."
        /\ n2 >= 1 /\ CharAt(buf, q + n2) = "."
        /\ n3 >= 1

\* captures[1] of the leftmost match
RevisionMajor(buf) ==
    LET i == CHOOSE k \in 1..Len(buf) :
                 RevisionAt(buf, k) /\ \A j \in 1..(k - 1) : ~RevisionAt(buf, j)
    IN  SubSeq(buf, i + 15, i + 14 + DigitRun(buf, i + 15))

\* file is what File::open / read_to_string find at <ndk_dir>/source.properties
ndk_major_version(file) ==
    IF file.kind = "missing" THEN Panic("Couldn't open source.properties")
    ELSE IF file.kind = "binary" THEN Panic("Could not read source.properties")
    ELSE IF ~\E i \in 1..Len(file.text) : RevisionAt(file.text, i)
         THEN Panic("source.properties did not match the regex")
    ELSE LET n == ParseU32(RevisionMajor(file.text))
         IN  IF n.ok THEN Ok(n.val) ELSE Panic("could not parse major version")

NdkBoundary == 22

----------------------------------------------------------------------------
(* The two builders.                                                       *)

\* bindgen::builder()
NewBindgen ==
    [headers |-> <<>>, allowlist_function |-> <<>>, allowlist_type |-> <<>>,
     allowlist_var |-> <<>>, clang_args |-> <<>>]

clang_args(b, args) == [b EXCEPT !.clang_args = @ \o args]
clang_arg(b, arg) == clang_args(b, <<arg>>)

\* cc::Build::new()
NewCc ==
    [flags_supported |-> <<>>, definitions |-> <<>>, flags |-> <<>>,
     files |-> <<>>, warnings |-> None]

flag(b, f) == [b EXCEPT !.flags = Append(@, f)]

----------------------------------------------------------------------------
(* Android: the flags of the two match arms.                               *)

\* lines 156-170
AndroidClangArgs(ndk_root, major, os) ==
    IF major < NdkBoundary
    THEN Ok(<< "--sysroot=" \o ndk_root \o "/sysroot",
               "-isystem" \o ndk_root \o "/sources/cxx-stl/llvm-libc++/include" >>)
    ELSE LET tag == host_tag(os) IN
         IF ~tag.ok THEN tag
         ELSE LET host_toolchain == ndk_root \o "/toolchains/llvm/prebuilt/" \o tag.val
              IN  Ok(<< "--sysroot=" \o host_toolchain \o "/sysroot" >>)

\* AndroidCcFlags with the boundary included in the legacy shape (`major <= 22`)
AndroidCcFlags_InclusiveBoundary(ndk_root, major, os) ==
    IF major <= NdkBoundary
    THEN Ok(<< "--sysroot=" \o ndk_root \o "/sysroot",
               "-isystem" \o ndk_root \o "/sources/cxx-stl/llvm-libc++/include" >>)
    ELSE LET tag == host_tag(os) IN
         IF ~tag.ok THEN tag
         ELSE LET host_toolchain == ndk_root \o "/toolchains/llvm/prebuilt/" \o tag.val
              IN  Ok(<< "--sysroot=" \o host_toolchain \o "/sysroot" >>)

\* lines 247-258
AndroidCcFlags(ndk_root, major, os) ==
    IF major < NdkBoundary
    THEN Ok(<< "--sysroot=" \o ndk_root \o "/sysroot",
               "-isystem" \o ndk_root \o "/sources/cxx-stl/llvm-libc++/include" >>)
    ELSE LET tag == host_tag(os) IN
         IF ~tag.ok THEN tag
         ELSE LET host_toolchain == ndk_root \o "/toolchains/llvm/prebuilt/" \o tag.val
              IN  Ok(<< "--sysroot=" \o host_toolchain \o "/sysroot" >>)

----------------------------------------------------------------------------
(* Apple: sdk_path, add_bindgen_root, add_cc_root.                         *)

\* lines 277-294: the SDK name, None where the code is unreachable!()
SdkName(t) ==
    IF \/ Contains(t, "apple-darwin")
       \/ t = "aarch64-apple-ios-macabi"
       \/ t = "x86_64-apple-ios-macabi"
    THEN Some("macosx")
    ELSE IF \/ t = "x86_64-apple-ios"
            \/ t = "i386-apple-ios"
            \/ t = "aarch64-apple-ios-sim"
    THEN Some("iphonesimulator")
    ELSE IF \/ t = "aarch64-apple-ios"
            \/ t = "armv7-apple-ios"
            \/ t = "armv7s-apple-ios"
    THEN Some("iphoneos")
    ELSE None

XcrunCommand(sdk) == "xcrun --sdk " \o sdk \o " --show-sdk-path"

\* What Command::output() can meet.  out.spawned: the process was started;
\* out.status: its exit code; out.utf8: its stdout is valid UTF-8.
\* The result is a Result<String, io::Error> (kind Ok / Err) or a panic.
sdk_path(t, out) ==
    IF SdkName(t) = None
    THEN [kind |-> "panic", val |-> "", msg |-> "internal error: entered unreachable code"]
    ELSE IF ~out.spawned
    THEN [kind |-> "Err", val |-> "", msg |-> ""]
    ELSE IF ~out.utf8
    THEN [kind |-> "panic", val |-> "", msg |-> "invalid output from xcrun"]
    ELSE [kind |-> "Ok", val |-> TrimEnd(out.stdout), msg |-> ""]

\* Result::ok
ResultOk(r) == IF r.kind = "Ok" THEN Some(r.val) ELSE None

\* BindgenTargetOverride passing the simulator descriptor through unchanged
BindgenTargetOverride_NoRewrite(t) ==
    IF t = "aarch64-apple-ios" \/ t = "x86_64-apple-ios" \/ t = "aarch64-apple-ios-sim"
    THEN Some(t)
    ELSE None

\* lines 322-328
BindgenTargetOverride(t) ==
    IF t = "aarch64-apple-ios" \/ t = "x86_64-apple-ios" THEN Some(t)
    ELSE IF t = "aarch64-apple-ios-sim" THEN Some("arm64-apple-ios14.0.0-simulator")
    ELSE None

\* lines 304-341
add_bindgen_root(sdk, t, builder) ==
    LET tgt == BindgenTargetOverride(t)
        b1  == IF tgt # None THEN clang_arg(builder, "--target=" \o tgt[1]) ELSE builder
    IN  IF sdk # None THEN clang_args(b1, <<"-isysroot", sdk[1]>>) ELSE b1

\* add_cc_root that forgets the SDK root
add_cc_root_NoSysroot(sdk, t, builder) ==
    LET b0  == IF t = "aarch64-apple-ios-sim" THEN flag(builder, "-m64") ELSE builder
        tgt == IF t = "aarch64-apple-ios" \/ t = "x86_64-apple-ios" THEN Some(t)
               ELSE IF t = "aarch64-apple-ios-sim"
                    THEN Some("arm64-apple-ios14.0.0-simulator")
               ELSE None
    IN  IF tgt = None THEN b0
        ELSE LET b == IF tgt[1] = "x86_64-apple-ios"
                      THEN flag(b0, "-mios-simulator-version-min=10.0")
                      ELSE IF tgt[1] = "aarch64-apple-ios"
                      THEN flag(b0, "-miphoneos-version-min=10.0")
                      ELSE b0
             IN  flag(b, "--target=" \o tgt[1])

\* lines 343-378
add_cc_root(sdk, t, builder) ==
    LET b0  == IF t = "aarch64-apple-ios-sim" THEN flag(builder, "-m64") ELSE builder
        tgt == IF t = "aarch64-apple-ios" \/ t = "x86_64-apple-ios" THEN Some(t)
               ELSE IF t = "aarch64-apple-ios-sim"
                    THEN Some("arm64-apple-ios14.0.0-simulator")
               ELSE None
        b1  == IF tgt = None THEN b0
               ELSE LET b == IF tgt[1] = "x86_64-apple-ios"
                             THEN flag(b0, "-mios-simulator-version-min=10.0")
                             ELSE IF tgt[1] = "aarch64-apple-ios"
                             THEN flag(b0, "-miphoneos-version-min=10.0")
                             ELSE b0
                    IN  flag(b, "--target=" \o tgt[1])
    IN  IF sdk # None THEN flag(b1, "-isysroot" \o sdk[1]) ELSE b1

\* lines 183-192: the version floors added after add_bindgen_root
AppleVersionArgs(t) ==
    IF t.system = "ios"
    THEN <<"-miphoneos-version-min=10.0">>
           \o (IF t.abi = Some("sim") /\ t.architecture = "aarch64"
               THEN <<"-mios-simulator-version-min=14.0">> ELSE <<>>)
    ELSE <<"-miphoneos-version-min=14.0">>

\* IsAndroid that also takes a plain linux system for Android
IsAndroid_Linux(system) == system = "android" \/ system = "androideabi" \/ system = "linux"

\* the arms of `match target.system.borrow()` (lines 152-195 and 243-270)
IsAndroid(system) == system = "android" \/ system = "androideabi"
IsApple(system) == system = "ios" \/ system = "darwin"

----------------------------------------------------------------------------
(* The environments explored.                                              *)

Archs == {"aarch64", "x86_64", "armv7", "arm64e"}
Vendors == {"apple", "linux"}
Systems == {"ios", "darwin", "android", "androideabi", "linux"}
Abis == {"sim", "macabi", "gnu"}

TokenChoices(i) ==
    IF i = 1 THEN Archs
    ELSE IF i = 2 THEN Vendors
    ELSE IF i = 3 THEN Systems
    ELSE IF i = 4 THEN Abis
    ELSE {"elf"}

RECURSIVE TargetsOfLen(_)
TargetsOfLen(n) ==
    IF n = 1 THEN TokenChoices(1)
    ELSE {p \o "-" \o t : p \in TargetsOfLen(n - 1), t \in TokenChoices(n)}

\* TARGET values: the empty string, every dash-join of 1..MaxTokens tokens, and
\* spellings with empty tokens or with a longer token around "apple-darwin"
Targets ==
    {"", "--", "aarch64--ios", "x86_64-pineapple-darwin", "i386-apple-ios"}
      \cup UNION {TargetsOfLen(n) : n \in 1..MaxTokens}

FeatureSets ==
    { {},
      {"stbi_no_png"},
      {"stb_dxt", "stb_dxt_use_rounding_bias", "stb_image", "stbi_no_jpeg"} }

HostSystems == {"windows", "linux", "macos", "freebsd"}

NdkRoots == {"/opt/android-ndk", "/ndk/"}

NdkMajors == (NdkBoundary - NdkSpan)..(NdkBoundary + NdkSpan)

File(kind, text) == [kind |-> kind, text |-> text]

\* states of <ndk>/source.properties; with ANDROID_NDK unset there is no such file
NdkFiles ==
    {File("missing", ""), File("binary", "")}
      \cup {File("text", "Pkg.Desc = Android NDK\nPkg.Revision = "
                            \o ToStr(m) \o ".4.7075529\n") : m \in NdkMajors}
      \cup {File("text", "Pkg.Desc = Android NDK\n"),
            File("text", "Pkg.Revision = 99999999999.0.1")}

Xcrun(spawned, status, utf8, stdout) ==
    [spawned |-> spawned, status |-> status, utf8 |-> utf8, stdout |-> stdout]

\* what running `xcrun --sdk <sdk> --show-sdk-path` can do
XcrunOutcomes(sdk) ==
    { Xcrun(FALSE, 0, TRUE, ""),
      Xcrun(TRUE, 0, TRUE, "/Applications/Xcode.app/SDKs/" \o sdk \o ".sdk\n"),
      Xcrun(TRUE, 1, TRUE, ""),
      Xcrun(TRUE, 0, FALSE, "") }

\* sdk_path runs no command for a target it does not recognize
OutcomesFor(t) ==
    IF SdkName(t) = None THEN {Xcrun(FALSE, 0, TRUE, "")} ELSE XcrunOutcomes(SdkName(t)[1])

----------------------------------------------------------------------------
(* main.                                                                   *)

\* an effect on the environment; ret is what the environment answered, where the
\* script looks at it
Event(op, arg) == [op |-> op, arg |-> arg, ret |-> ""]

ExitText(out) ==
    IF ~out.spawned THEN "not started"
    ELSE IF out.status # 0 THEN "exit 1"
    ELSE IF ~out.utf8 THEN "exit 0, stdout not UTF-8"
    ELSE "exit 0"

\* Command::new("xcrun").args(..).output()
Exec(sdk, out) == [op |-> "exec", arg |-> XcrunCommand(sdk), ret |-> ExitText(out)]

Init ==
    /\ TARGET \in Targets
    /\ FEATURES \in FeatureSets
    /\ HOST_OS \in HostSystems
    /\ ANDROID_NDK \in {None} \cup {Some(r) : r \in NdkRoots}
    /\ source_properties \in NdkFiles
    /\ ANDROID_NDK = None => source_properties = File("missing", "")
    /\ pc = "start"
    /\ target_vec = <<>>
    /\ target = NoTarget
    /\ bindgen_builder = NewBindgen
    /\ cc_builder = NewCc
    /\ bindings_rs = "absent"
    /\ gen_major = None
    /\ cc_major = None
    /\ gen_directory = None
    /\ cc_directory = None
    /\ io = <<>>
    /\ panic_msg = ""

env == <<TARGET, FEATURES, HOST_OS, ANDROID_NDK, source_properties>>

\* WellFormed accepting two tokens (`target.len() < 2`)
WellFormed_TwoTokens(v) == ~(Len(v) < 2)

\* lines 114-116
WellFormed(v) == ~(Len(v) < 3)

\* lines 112-129.  Indexing target[2] (line 127) panics on a shorter Vec; the
\* assert of line 115 leaves that panic without a TARGET that reaches it.
ParseTarget ==
    /\ pc = "start"
    /\ io' = Append(io, Event("env", "TARGET"))
    /\ target_vec' = Split(TARGET)
    /\ IF ~WellFormed(target_vec')
       THEN /\ pc' = "panic"
            /\ panic_msg' = "Failed to parse TARGET " \o TARGET
            /\ target' = target
       ELSE IF Len(target_vec') < 3
       THEN /\ pc' = "panic"
            /\ panic_msg' = "index out of bounds"
            /\ target' = target
       ELSE /\ pc' = "prologue"
            /\ panic_msg' = panic_msg
            /\ target' = TargetOf(target_vec')
    /\ UNCHANGED <<env, bindgen_builder, cc_builder, bindings_rs, gen_major,
                   cc_major, gen_directory, cc_directory>>

\* lines 131-134
Prologue ==
    /\ pc = "prologue"
    /\ io' = io \o << Event("print", "cargo:rerun-if-changed=build.rs"),
                      Event("env", "OUT_DIR") >>
    /\ pc' = "files"
    /\ UNCHANGED <<env, target_vec, target, bindgen_builder, cc_builder, bindings_rs,
                   gen_major, cc_major, gen_directory, cc_directory, panic_msg>>

\* is_empty inverted (`!FILES.is_empty()`)
is_empty_Inverted(files) == files # <<>>

\* line 136
is_empty(files) == files = <<>>

\* lines 136-140
EmptyFiles ==
    /\ pc = "files"
    /\ is_empty(FILES(FEATURES))
    /\ io' = Append(io, Event("write", bindings_path))
    /\ bindings_rs' = "empty"
    /\ pc' = "done"
    /\ UNCHANGED <<env, target_vec, target, bindgen_builder, cc_builder,
                   gen_major, cc_major, gen_directory, cc_directory, panic_msg>>

\* lines 142-150
BindgenSetup ==
    /\ pc = "files"
    /\ ~is_empty(FILES(FEATURES))
    /\ bindgen_builder' = [NewBindgen EXCEPT !.headers = FILES(FEATURES),
                                             !.allowlist_function = <<"stb.*">>,
                                             !.allowlist_type = <<"stb.*">>,
                                             !.allowlist_var = <<"stb.*">>]
    /\ pc' = "bindgen_match"
    /\ UNCHANGED <<env, target_vec, target, cc_builder, bindings_rs, gen_major,
                   cc_major, gen_directory, cc_directory, io, panic_msg>>

\* lines 153-171
BindgenAndroid ==
    /\ pc = "bindgen_match"
    /\ IsAndroid(target.system)
    /\ LET root  == ndk(ANDROID_NDK)
           io1   == Append(io, Event("env", "ANDROID_NDK"))
           major == ndk_major_version(source_properties)
           io2   == Append(io1, Event("read", PathJoin(root.val, "source.properties")))
           args  == AndroidClangArgs(root.val, major.val, HOST_OS)
       IN  IF ~root.ok
           THEN /\ pc' = "panic" /\ panic_msg' = root.msg /\ io' = io1
                /\ UNCHANGED <<gen_major, bindgen_builder>>
           ELSE IF ~major.ok
           THEN /\ pc' = "panic" /\ panic_msg' = major.msg /\ io' = io2
                /\ UNCHANGED <<gen_major, bindgen_builder>>
           ELSE IF ~args.ok
           THEN /\ pc' = "panic" /\ panic_msg' = args.msg /\ io' = io2
                /\ gen_major' = Some(major.val)
                /\ UNCHANGED bindgen_builder
           ELSE /\ pc' = "generate" /\ panic_msg' = panic_msg /\ io' = io2
                /\ gen_major' = Some(major.val)
                /\ bindgen_builder' = clang_args(bindgen_builder, args.val)
    /\ UNCHANGED <<env, target_vec, target, cc_builder, bindings_rs, cc_major,
                   gen_directory, cc_directory>>

\* lines 172-193
BindgenApple ==
    /\ pc = "bindgen_match"
    /\ IsApple(target.system)
    /\ \E out \in OutcomesFor(TARGET) :
         LET b0         == clang_arg(bindgen_builder, "-miphoneos-version-min=10.0")
             env_target == TARGET
             io1        == Append(io, Event("env", "TARGET"))
             sdk        == SdkName(env_target)
             res        == sdk_path(env_target, out)
             io2        == Append(io1, Exec(sdk[1], out))
             directory  == ResultOk(res)
             b1         == add_bindgen_root(directory, env_target, b0)
             io3        == Append(io2, Event("print",
                               "cargo:rerun-if-env-changed=BINDGEN_EXTRA_CLANG_ARGS"))
         IN  IF sdk = None
             THEN /\ pc' = "panic" /\ panic_msg' = res.msg /\ io' = io1
                  /\ bindgen_builder' = b0
                  /\ UNCHANGED gen_directory
             ELSE IF res.kind = "panic"
             THEN /\ pc' = "panic" /\ panic_msg' = res.msg /\ io' = io2
                  /\ bindgen_builder' = b0
                  /\ UNCHANGED gen_directory
             ELSE /\ pc' = "generate" /\ panic_msg' = panic_msg /\ io' = io3
                  /\ gen_directory' = Some(directory)
                  /\ bindgen_builder' = clang_args(b1, AppleVersionArgs(target))
    /\ UNCHANGED <<env, target_vec, target, cc_builder, bindings_rs, gen_major,
                   cc_major, cc_directory>>

\* line 194
BindgenDefault ==
    /\ pc = "bindgen_match"
    /\ ~IsAndroid(target.system)
    /\ ~IsApple(target.system)
    /\ pc' = "generate"
    /\ UNCHANGED <<env, target_vec, target, bindgen_builder, cc_builder, bindings_rs,
                   gen_major, cc_major, gen_directory, cc_directory, io, panic_msg>>

\* lines 198-202: bindgen runs and either fails or has its output written
Generate ==
    /\ pc = "generate"
    /\ \E generated \in BOOLEAN :
         IF generated
         THEN /\ io' = io \o <<Event("run", "bindgen"), Event("write", bindings_path)>>
              /\ bindings_rs' = "generated"
              /\ pc' = "cc_setup"
              /\ panic_msg' = panic_msg
         ELSE /\ io' = Append(io, Event("run", "bindgen"))
              /\ bindings_rs' = bindings_rs
              /\ pc' = "panic"
              /\ panic_msg' = "Failed to generate bindings"
    /\ UNCHANGED <<env, target_vec, target, bindgen_builder, cc_builder, gen_major,
                   cc_major, gen_directory, cc_directory>>

\* lines 204-241
CcSetup ==
    /\ pc = "cc_setup"
    /\ cc_builder' = [NewCc EXCEPT
                        !.flags_supported = <<"-Wno-implicit-function-declaration">>,
                        !.definitions = Defines(FEATURES)]
    /\ pc' = "cc_match"
    /\ UNCHANGED <<env, target_vec, target, bindgen_builder, bindings_rs, gen_major,
                   cc_major, gen_directory, cc_directory, io, panic_msg>>

\* lines 244-259
CcAndroid ==
    /\ pc = "cc_match"
    /\ IsAndroid(target.system)
    /\ LET root  == ndk(ANDROID_NDK)
           io1   == Append(io, Event("env", "ANDROID_NDK"))
           major == ndk_major_version(source_properties)
           io2   == Append(io1, Event("read", PathJoin(root.val, "source.properties")))
           flags == AndroidCcFlags(root.val, major.val, HOST_OS)
       IN  IF ~root.ok
           THEN /\ pc' = "panic" /\ panic_msg' = root.msg /\ io' = io1
                /\ UNCHANGED <<cc_major, cc_builder>>
           ELSE IF ~major.ok
           THEN /\ pc' = "panic" /\ panic_msg' = major.msg /\ io' = io2
                /\ UNCHANGED <<cc_major, cc_builder>>
           ELSE IF ~flags.ok
           THEN /\ pc' = "panic" /\ panic_msg' = flags.msg /\ io' = io2
                /\ cc_major' = Some(major.val)
                /\ UNCHANGED cc_builder
           ELSE /\ pc' = "compile" /\ panic_msg' = panic_msg /\ io' = io2
                /\ cc_major' = Some(major.val)
                /\ cc_builder' = [cc_builder EXCEPT !.flags = @ \o flags.val]
    /\ UNCHANGED <<env, target_vec, target, bindgen_builder, bindings_rs, gen_major,
                   gen_directory, cc_directory>>

\* lines 260-268
CcApple ==
    /\ pc = "cc_match"
    /\ IsApple(target.system)
    /\ \E out \in OutcomesFor(TARGET) :
         LET env_target == TARGET
             io1        == Append(io, Event("env", "TARGET"))
             sdk        == SdkName(env_target)
             res        == sdk_path(env_target, out)
             io2        == Append(io1, Exec(sdk[1], out))
             directory  == ResultOk(res)
             io3        == Append(io2, Event("print",
                               "cargo:rerun-if-env-changed=BINDGEN_EXTRA_CLANG_ARGS"))
         IN  IF sdk = None
             THEN /\ pc' = "panic" /\ panic_msg' = res.msg /\ io' = io1
                  /\ UNCHANGED <<cc_directory, cc_builder>>
             ELSE IF res.kind = "panic"
             THEN /\ pc' = "panic" /\ panic_msg' = res.msg /\ io' = io2
                  /\ UNCHANGED <<cc_directory, cc_builder>>
             ELSE /\ pc' = "compile" /\ panic_msg' = panic_msg /\ io' = io3
                  /\ cc_directory' = Some(directory)
                  /\ cc_builder' = add_cc_root(directory, env_target, cc_builder)
    /\ UNCHANGED <<env, target_vec, target, bindgen_builder, bindings_rs, gen_major,
                   cc_major, gen_directory>>

\* line 269
CcDefault ==
    /\ pc = "cc_match"
    /\ ~IsAndroid(target.system)
    /\ ~IsApple(target.system)
    /\ pc' = "compile"
    /\ UNCHANGED <<env, target_vec, target, bindgen_builder, cc_builder, bindings_rs,
                   gen_major, cc_major, gen_directory, cc_directory, io, panic_msg>>

\* line 272: the compiler runs; cc panics when it fails and otherwise registers
\* the static library with cargo
Compile ==
    /\ pc = "compile"
    /\ cc_builder' = [cc_builder EXCEPT !.files = FILES(FEATURES),
                                        !.warnings = Some(FALSE)]
    /\ \E compiled \in BOOLEAN :
         IF compiled
         THEN /\ io' = io \o << Event("run", "cc"),
                                Event("print", "cargo:rustc-link-lib=static=stb"),
                                Event("print", "cargo:rustc-link-search=native=" \o OUT_DIR) >>
              /\ pc' = "done"
              /\ panic_msg' = panic_msg
         ELSE /\ io' = Append(io, Event("run", "cc"))
              /\ pc' = "panic"
              /\ panic_msg' = "cc failed"
    /\ UNCHANGED <<env, target_vec, target, bindgen_builder, bindings_rs, gen_major,
                   cc_major, gen_directory, cc_directory>>

Next ==
    \/ ParseTarget
    \/ Prologue
    \/ EmptyFiles
    \/ BindgenSetup
    \/ BindgenAndroid
    \/ BindgenApple
    \/ BindgenDefault
    \/ Generate
    \/ CcSetup
    \/ CcAndroid
    \/ CcApple
    \/ CcDefault
    \/ Compile

Spec == Init /\ [][Next]_vars

----------------------------------------------------------------------------
(* Vocabulary of the properties.                                           *)

InSeq(x, s) == \E i \in 1..Len(s) : s[i] = x

DashCount(s) == Cardinality({i \in 1..Len(s) : CharAt(s, i) = "-"})

\* the positions of io with an event of kind op
EventsOf(op) == {i \in 1..Len(io) : io[i].op = op}

NdkReads == {i \in 1..Len(io) : io[i].op = "read" \/ io[i] = Event("env", "ANDROID_NDK")}

\* main returned after compiling, not from the empty-FILES return of line 139
Compiled == pc = "done" /\ bindings_rs = "generated"

\* main is past the first match / past the second match
PastBindgenMatch == pc \in {"generate", "cc_setup", "cc_match", "compile"} \/ Compiled
PastCcMatch == pc = "compile" \/ Compiled

\* the position of io at which bindgen ran, Len(io) + 1 before that
BindgenRunAt ==
    IF \E i \in 1..Len(io) : io[i] = Event("run", "bindgen")
    THEN CHOOSE i \in 1..Len(io) : io[i] = Event("run", "bindgen")
    ELSE Len(io) + 1

----------------------------------------------------------------------------
(* C1: once TARGET is parsed, a string of exactly 3 dash-separated tokens  *)
(* gives the descriptor (token1, token2, token3, None) and a string of     *)
(* exactly 4 tokens gives (token1, token2, token3, Some(token4)); the      *)
(* tokens are those of the string, so the descriptor prints back as TARGET.*)
C1_ParsedFields ==
    (pc # "start" /\ DashCount(TARGET) \in {2, 3}) =>
        /\ Len(target_vec) = DashCount(TARGET) + 1
        /\ \A i \in 1..Len(target_vec) : DashCount(target_vec[i]) = 0
        /\ target.architecture = target_vec[1]
        /\ target.vendor = target_vec[2]
        /\ target.system = target_vec[3]
        /\ DashCount(TARGET) = 2 => target.abi = None
        /\ DashCount(TARGET) = 3 => target.abi = Some(target_vec[4])
        /\ Display(target) = TARGET

C1_Witness ==
    /\ pc = "prologue"
    /\ TARGET = "aarch64-apple-ios-sim"
    /\ target = Target("aarch64", "apple", "ios", Some("sim"))

(* C2: a TARGET of fewer than 3 tokens makes the script panic in the parse *)
(* step with the malformed-TARGET message, having emitted no directive,    *)
(* written no file, run no discovery step and invoked neither tool.        *)
C2_MalformedAborts ==
    (pc # "start" /\ DashCount(TARGET) < 2) =>
        /\ pc = "panic"
        /\ panic_msg = "Failed to parse TARGET " \o TARGET
        /\ io = <<Event("env", "TARGET")>>
        /\ bindings_rs = "absent"
        /\ bindgen_builder = NewBindgen
        /\ cc_builder = NewCc

C2_Witness ==
    /\ pc = "panic"
    /\ TARGET = "aarch64-apple"
    /\ Len(target_vec) = 2

(* C3: on Android, for the NDK root r and the major version m detected for *)
(* a flag set: m < 22 puts --sysroot=r/sysroot and the legacy libc++       *)
(* include flag in that flag set; m >= 22 puts                             *)
(* --sysroot=r/toolchains/llvm/prebuilt/<host-tag>/sysroot in it and not   *)
(* the legacy include flag; the two sysroots differ.  This holds of the    *)
(* generator flag set and of the compiler flag set.                        *)
C3_HostTags == {"windows-x86_64", "linux-x86_64", "darwin-x86_64"}

C3_Shape(flags, r, m) ==
    LET legacy_sysroot == "--sysroot=" \o r \o "/sysroot"
        legacy_include == "-isystem" \o r \o "/sources/cxx-stl/llvm-libc++/include"
        Prebuilt(tag)  == "--sysroot=" \o r \o "/toolchains/llvm/prebuilt/" \o tag \o "/sysroot"
    IN  /\ m < 22 => InSeq(legacy_sysroot, flags) /\ InSeq(legacy_include, flags)
        /\ m >= 22 => /\ \E tag \in C3_HostTags : InSeq(Prebuilt(tag), flags)
                      /\ ~InSeq(legacy_include, flags)
                      /\ ~InSeq(legacy_sysroot, flags)
        /\ \A tag \in C3_HostTags : Prebuilt(tag) # legacy_sysroot

\* C3: on Android each flag set has the sysroot shape of its detected NDK major
C3_AndroidSysroot ==
    target.system \in {"android", "androideabi"} =>
        /\ PastBindgenMatch =>
             /\ gen_major # None
             /\ C3_Shape(bindgen_builder.clang_args, ANDROID_NDK[1], gen_major[1])
        /\ PastCcMatch =>
             /\ cc_major # None
             /\ C3_Shape(cc_builder.flags, ANDROID_NDK[1], cc_major[1])

C3_Witness ==
    /\ pc = "done"
    /\ target.system = "androideabi"
    /\ gen_major = Some(22)
    /\ cc_major = Some(22)

(* C4: for TARGET aarch64-apple-ios-sim the generator arguments hold       *)
(* -mios-simulator-version-min=14.0 and the rewritten                      *)
(* --target=arm64-apple-ios14.0.0-simulator; for aarch64-apple-ios they    *)
(* hold -miphoneos-version-min=10.0 and --target=aarch64-apple-ios, the    *)
(* descriptor itself.  In both cases there is exactly one --target.        *)
C4_Targets(args) == {i \in 1..Len(args) : HasAt(args[i], 1, "--target=")}

\* C4: the floor and the --target of aarch64-apple-ios-sim and aarch64-apple-ios
C4_SimulatorRewrite ==
    PastBindgenMatch =>
        /\ TARGET = "aarch64-apple-ios-sim" =>
             /\ InSeq("-mios-simulator-version-min=14.0", bindgen_builder.clang_args)
             /\ InSeq("--target=arm64-apple-ios14.0.0-simulator", bindgen_builder.clang_args)
             /\ Cardinality(C4_Targets(bindgen_builder.clang_args)) = 1
        /\ TARGET = "aarch64-apple-ios" =>
             /\ InSeq("-miphoneos-version-min=10.0", bindgen_builder.clang_args)
             /\ ~InSeq("-mios-simulator-version-min=14.0", bindgen_builder.clang_args)
             /\ InSeq("--target=aarch64-apple-ios", bindgen_builder.clang_args)
             /\ Cardinality(C4_Targets(bindgen_builder.clang_args)) = 1

C4_Witness ==
    /\ pc = "generate"
    /\ TARGET = "aarch64-apple-ios-sim"
    /\ InSeq("--target=arm64-apple-ios14.0.0-simulator", bindgen_builder.clang_args)

(* C5: for an Apple descriptor the generator arguments carry exactly one   *)
(* of the three version floors, that of the descriptor's own case:         *)
(* aarch64 ios sim -> the simulator floor, any other ios -> the iOS floor, *)
(* darwin -> the later floor.                                              *)
C5_Floors ==
    {"-miphoneos-version-min=10.0", "-mios-simulator-version-min=14.0",
     "-miphoneos-version-min=14.0"}

C5_OwnFloor ==
    IF target.system = "ios" /\ target.abi = Some("sim") /\ target.architecture = "aarch64"
    THEN "-mios-simulator-version-min=14.0"
    ELSE IF target.system = "ios" THEN "-miphoneos-version-min=10.0"
    ELSE "-miphoneos-version-min=14.0"

\* C5: the generator arguments carry the floor of the own case and no other
C5_ExclusiveFloor ==
    (target.system \in {"ios", "darwin"} /\ PastBindgenMatch) =>
        \A f \in C5_Floors : InSeq(f, bindgen_builder.clang_args) <=> f = C5_OwnFloor

(* C6: for a well-formed descriptor whose system is none of android,       *)
(* androideabi, ios, darwin, the generator holds no clang argument, only   *)
(* the stb.* allow-list; the compiler holds no flag but the warning        *)
(* suppression and the "1"-valued feature defines; ANDROID_NDK and         *)
(* source.properties are never read and xcrun is never run.                *)
C6_DefaultFamilyNoFlags ==
    (pc # "start" /\ DashCount(TARGET) >= 2
       /\ target.system \notin {"android", "androideabi", "ios", "darwin"}) =>
        /\ bindgen_builder.clang_args = <<>>
        /\ cc_builder.flags = <<>>
        /\ NdkReads = {}
        /\ EventsOf("exec") = {}
        /\ PastBindgenMatch =>
             /\ bindgen_builder.allowlist_function = <<"stb.*">>
             /\ bindgen_builder.allowlist_type = <<"stb.*">>
             /\ bindgen_builder.allowlist_var = <<"stb.*">>
        /\ PastCcMatch =>
             /\ cc_builder.flags_supported = <<"-Wno-implicit-function-declaration">>
             /\ \A i \in 1..Len(cc_builder.definitions) :
                    /\ cc_builder.definitions[i][2] = "1"
                    /\ HasAt(cc_builder.definitions[i][1], 1, "STB")

C6_Witness ==
    /\ Compiled
    /\ TARGET = "x86_64-linux-linux-gnu"
    /\ cc_builder.definitions # <<>>
    /\ ANDROID_NDK # None

(* C7: with no source file enabled, every well-formed TARGET (Android and  *)
(* Apple ones too, ANDROID_NDK set or not) leads main only to its early    *)
(* return: it never panics, runs neither bindgen nor cc nor xcrun, never   *)
(* reads the NDK, and returns having written an empty bindings.rs.         *)
C7_Capabilities ==
    {"stb_easy_font", "stb_dxt", "stb_image", "stb_image_write", "stb_rect_pack",
     "stb_image_resize", "stb_truetype"}

\* C7: an empty FILES writes an empty bindings.rs and runs no tool
C7_EmptyFilesShortCircuit ==
    (FEATURES \cap C7_Capabilities = {} /\ DashCount(TARGET) >= 2) =>
        /\ pc \in {"start", "prologue", "files", "done"}
        /\ panic_msg = ""
        /\ EventsOf("run") = {}
        /\ EventsOf("exec") = {}
        /\ NdkReads = {}
        /\ pc # "done" => bindings_rs = "absent"
        /\ pc = "done" =>
             /\ bindings_rs = "empty"
             /\ io[Len(io)] = Event("write", OUT_DIR \o "/bindings.rs")
             /\ Cardinality(EventsOf("write")) = 1

C7_Witness ==
    /\ pc = "done"
    /\ bindings_rs = "empty"
    /\ target.system = "android"
    /\ ANDROID_NDK = None

(* C8: when xcrun cannot be started, fails, or prints bytes that are not   *)
(* UTF-8, the build goes on and the flag set being assembled gets no       *)
(* -isysroot; the generator's other arguments are those of the run in      *)
(* which xcrun succeeds.                                                   *)
RECURSIVE C8_Strip(_)
C8_Strip(args) ==
    IF args = <<>> THEN <<>>
    ELSE IF Head(args) = "-isysroot" THEN C8_Strip(Tail(Tail(args)))
    ELSE <<Head(args)>> \o C8_Strip(Tail(args))

C8_GeneratorArgsOfGoodRun ==
    clang_args(add_bindgen_root(Some("/sdk"), TARGET,
                                clang_arg(NewBindgen, "-miphoneos-version-min=10.0")),
               AppleVersionArgs(target)).clang_args

\* C8: a failed xcrun neither aborts the build nor adds -isysroot
C8_FailedLookupDegrades ==
    \A i \in EventsOf("exec") :
        io[i].ret # "exit 0" =>
            /\ ~(pc = "panic" /\ i = Len(io))
            /\ (i < BindgenRunAt /\ PastBindgenMatch) =>
                 /\ ~InSeq("-isysroot", bindgen_builder.clang_args)
                 /\ bindgen_builder.clang_args = C8_Strip(C8_GeneratorArgsOfGoodRun)
            /\ (i > BindgenRunAt /\ PastCcMatch) =>
                 \A k \in 1..Len(cc_builder.flags) :
                     ~HasAt(cc_builder.flags[k], 1, "-isysroot")

(* C9: a well-formed descriptor with system ios or darwin never reaches    *)
(* the unreachable!() of sdk_path: whenever the lookup is entered, TARGET  *)
(* is one of the spellings it knows.                                       *)
C9_Recognized(t) ==
    \/ Contains(t, "apple-darwin")
    \/ t \in {"aarch64-apple-ios-macabi", "x86_64-apple-ios-macabi", "x86_64-apple-ios",
              "i386-apple-ios", "aarch64-apple-ios-sim", "aarch64-apple-ios",
              "armv7-apple-ios", "armv7s-apple-ios"}

\* C9: no ios/darwin descriptor reaches the unreachable!() of sdk_path
C9_LookupRecognized ==
    /\ panic_msg # "internal error: entered unreachable code"
    /\ (pc \in {"bindgen_match", "cc_match"} /\ target.system \in {"ios", "darwin"})
         => C9_Recognized(TARGET)

(* C10, as stated: the NDK metadata is read at most once and xcrun is run  *)
(* at most once in a build, each only for its own platform family.         *)
C10_OncePerBuild ==
    /\ Cardinality(EventsOf("read")) <= 1
    /\ Cardinality(EventsOf("exec")) <= 1
    /\ NdkReads # {} => target.system \in {"android", "androideabi"}
    /\ EventsOf("exec") # {} => target.system \in {"ios", "darwin"}

(* C10, amended: each discovery step runs at most once per flag set, so at *)
(* most twice in a build (once before bindgen runs, once after), and only  *)
(* for its own platform family; a build that compiles has run it twice;    *)
(* each flag set carries the SDK root resolved for it.                     *)
C10_OncePerFlagSet ==
    LET reads  == EventsOf("read")
        execs  == EventsOf("exec")
        Before(S) == {i \in S : i < BindgenRunAt}
        After(S)  == {i \in S : i > BindgenRunAt}
    IN  /\ Cardinality(Before(reads)) <= 1 /\ Cardinality(After(reads)) <= 1
        /\ Cardinality(Before(execs)) <= 1 /\ Cardinality(After(execs)) <= 1
        /\ NdkReads # {} => target.system \in {"android", "androideabi"}
        /\ execs # {} => target.system \in {"ios", "darwin"}
        /\ (Compiled /\ target.system \in {"android", "androideabi"})
             => Cardinality(reads) = 2
        /\ (Compiled /\ target.system \in {"ios", "darwin"})
             => Cardinality(execs) = 2
        /\ \A d \in {"/Applications/Xcode.app/SDKs/macosx.sdk",
                     "/Applications/Xcode.app/SDKs/iphoneos.sdk",
                     "/Applications/Xcode.app/SDKs/iphonesimulator.sdk", ""} :
             /\ gen_directory = Some(Some(d)) =>
                    \E k \in 1..(Len(bindgen_builder.clang_args) - 1) :
                        /\ bindgen_builder.clang_args[k] = "-isysroot"
                        /\ bindgen_builder.clang_args[k + 1] = d
             /\ cc_directory = Some(Some(d)) => InSeq("-isysroot" \o d, cc_builder.flags)

C10_Witness ==
    /\ Compiled
    /\ Cardinality(EventsOf("exec")) = 2
    /\ gen_directory = Some(None)
    /\ cc_directory = Some(Some("/Applications/Xcode.app/SDKs/iphoneos.sdk"))

====
